---- MODULE Spec2Model ----
(***************************************************************************)
(* Batch file renamer of Task4_Filename_Renamer/filename_renamer_logic.py. *)
(* Strings are sequences of one-character strings, so that sorting, suffix *)
(* tests, extension splitting and pattern rendering are computed.          *)
(***************************************************************************)
EXTENDS Integers, Sequences, FiniteSets, TLC

(* ---------------------------------------------------------------- bounds *)
\* largest number of entries of the directory in an initial state
MaxFiles == 2
\* largest number of rename_files runs that reach the rename loop
MaxRuns == 2
\* largest number of injected OS-level rename failures in one behaviour
MaxFaults == 1

(* ------------------------------------------------------------ characters *)
\* code points of the characters that occur in the modelled names/patterns
Ord ==
  (" " :> 32) @@ ("!" :> 33) @@ ("." :> 46) @@ ("0" :> 48) @@ ("1" :> 49) @@
  ("2" :> 50) @@ ("3" :> 51) @@ ("4" :> 52) @@ ("5" :> 53) @@ ("6" :> 54) @@
  ("7" :> 55) @@ ("8" :> 56) @@ ("9" :> 57) @@ (":" :> 58) @@ ("?" :> 63) @@
  ("T" :> 84) @@ ("a" :> 97) @@ ("b" :> 98) @@ ("d" :> 100) @@
  ("f" :> 102) @@ ("g" :> 103) @@ ("m" :> 109) @@ ("n" :> 110) @@
  ("s" :> 115) @@ ("t" :> 116) @@ ("u" :> 117) @@ ("x" :> 120) @@
  ("{" :> 123) @@ ("}" :> 125)

Digits == <<"0", "1", "2", "3", "4", "5", "6", "7", "8", "9">>

IsDigit(c) == \E i \in 1..10 : Digits[i] = c

DigitVal(c) == (CHOOSE i \in 1..10 : Digits[i] = c) - 1

\* str.lower() on one character
LowerChar(c) == IF c = "T" THEN "t" ELSE IF c = "N" THEN "n" ELSE c

\* str.lower()
Lower(s) == [i \in 1..Len(s) |-> LowerChar(s[i])]

\* str.endswith
EndsWith(s, suf) ==
  /\ Len(suf) <= Len(s)
  /\ SubSeq(s, Len(s) - Len(suf) + 1, Len(s)) = suf

\* substring test: sub in s
Contains(s, sub) ==
  \E i \in 1..(Len(s) - Len(sub) + 1) : SubSeq(s, i, i + Len(sub) - 1) = sub

\* str < str, by code point, as sorted() compares
RECURSIVE StrLess(_, _)
StrLess(a, b) ==
  IF a = <<>> THEN b # <<>>
  ELSE IF b = <<>> THEN FALSE
  ELSE IF Ord[Head(a)] # Ord[Head(b)] THEN Ord[Head(a)] < Ord[Head(b)]
  ELSE StrLess(Tail(a), Tail(b))

\* insert one string into a sorted sequence of strings
RECURSIVE Insert(_, _)
Insert(x, s) ==
  IF s = <<>> THEN <<x>>
  ELSE IF StrLess(x, Head(s)) THEN <<x>> \o s
  ELSE <<Head(s)>> \o Insert(x, Tail(s))

\* sorted(files)
RECURSIVE sorted(_)
sorted(s) == IF s = <<>> THEN <<>> ELSE Insert(Head(s), sorted(Tail(s)))

\* str(n) for n >= 0
RECURSIVE IntToStr(_)
IntToStr(n) ==
  IF n < 10 THEN <<Digits[n + 1]>>
  ELSE IntToStr(n \div 10) \o <<Digits[(n % 10) + 1]>>

\* int(s) for a string of digits
RECURSIVE StrToInt(_)
StrToInt(s) ==
  IF s = <<>> THEN 0
  ELSE 10 * StrToInt(SubSeq(s, 1, Len(s) - 1)) + DigitVal(s[Len(s)])

IsDigits(s) == \A i \in 1..Len(s) : IsDigit(s[i])

\* a string of n copies of c
Repeat(c, n) == [i \in 1..n |-> c]

\* position of the first c in s at or after position i, 0 when there is none
RECURSIVE Find(_, _, _)
Find(s, c, i) ==
  IF i > Len(s) THEN 0 ELSE IF s[i] = c THEN i ELSE Find(s, c, i + 1)

\* position of the last c in s, 0 when there is none
RECURSIVE RFind(_, _, _)
RFind(s, c, i) ==
  IF i < 1 THEN 0 ELSE IF s[i] = c THEN i ELSE RFind(s, c, i - 1)

(* ------------------------------------------------- str.format(num=counter) *)
\* Result of rendering: exc = "" and the text s, or the exception raised.
Rendered(s) == [exc |-> "", s |-> s]

Raises(e) == [exc |-> e, s |-> <<>>]

\* format(n, spec) for an int: '', 'd', width and zero-padded width.
\* Every other spec over the modelled characters that occurs in Patterns
\* ('?', 's', a precision) is a ValueError.
FormatInt(n, spec) ==
  LET body == IF spec # <<>> /\ spec[Len(spec)] = "d"
              THEN SubSeq(spec, 1, Len(spec) - 1) ELSE spec
      txt == IntToStr(n)
  IN IF ~IsDigits(body) THEN Raises("ValueError")
     ELSE IF body = <<>> THEN Rendered(txt)
     ELSE LET width == StrToInt(body)
              fill == IF body[1] = "0" THEN "0" ELSE " "
          IN IF Len(txt) >= width THEN Rendered(txt)
             ELSE Rendered(Repeat(fill, width - Len(txt)) \o txt)

\* format(s, spec) for a str: [width][.precision]; a type code other than
\* 's' is a ValueError.
FormatStr(txt, spec) ==
  LET body == IF spec # <<>> /\ spec[Len(spec)] = "s"
              THEN SubSeq(spec, 1, Len(spec) - 1) ELSE spec
      dot == Find(body, ".", 1)
      w == IF dot = 0 THEN body ELSE SubSeq(body, 1, dot - 1)
      p == IF dot = 0 THEN <<>> ELSE SubSeq(body, dot + 1, Len(body))
  IN IF ~IsDigits(w) \/ ~IsDigits(p) \/ (dot # 0 /\ p = <<>>)
     THEN Raises("ValueError")
     ELSE LET cut == IF dot # 0 /\ StrToInt(p) < Len(txt)
                     THEN SubSeq(txt, 1, StrToInt(p)) ELSE txt
              width == StrToInt(w)
          IN IF Len(cut) >= width THEN Rendered(cut)
             ELSE Rendered(cut \o Repeat(" ", width - Len(cut)))

\* Where the field name of "name[!conv][:spec]" stops: the position of the
\* first "!" or ":", or 0.
FieldStop(f) ==
  LET bang == Find(f, "!", 1)
      colon == Find(f, ":", 1)
  IN IF bang = 0 THEN colon
     ELSE IF colon = 0 THEN bang
     ELSE IF bang < colon THEN bang ELSE colon

\* The field f with its name, conversion conv ("" for none) and format spec
\* taken apart.
FormatParts(name, hasConv, badConv, conv, spec, n) ==
  LET dot == Find(name, ".", 1)
      first == IF dot = 0 THEN name ELSE SubSeq(name, 1, dot - 1)
  IN IF badConv THEN Raises("ValueError")
     ELSE IF first = <<>> \/ IsDigits(first) THEN Raises("IndexError")
     ELSE IF first # <<"n", "u", "m">> THEN Raises("KeyError")
     ELSE IF dot # 0 THEN Raises("AttributeError")
     ELSE IF ~hasConv THEN FormatInt(n, spec)
     ELSE IF conv \in {"s", "a"} THEN FormatStr(IntToStr(n), spec)
     ELSE Raises("ValueError")

\* The field f whose name stops at position stop.
FormatFieldAt(f, stop, n) ==
  LET hasConv == stop # 0 /\ f[stop] = "!"
      specAt == IF stop = 0 THEN 0 ELSE IF hasConv THEN stop + 2 ELSE stop
  IN FormatParts(
       IF stop = 0 THEN f ELSE SubSeq(f, 1, stop - 1),
       hasConv,
       hasConv /\ (stop = Len(f) \/ (stop + 2 <= Len(f) /\ f[stop + 2] # ":")),
       IF hasConv /\ stop < Len(f) THEN f[stop + 1] ELSE "",
       IF specAt = 0 \/ specAt > Len(f) THEN <<>>
       ELSE SubSeq(f, specAt + 1, Len(f)),
       n)

\* One replacement field "name[!conv][:spec]" (the text between the braces).
FormatField(f, n) == FormatFieldAt(f, FieldStop(f), n)

\* pattern.format(num=n), scanning the pattern from position i
RECURSIVE FormatFrom(_, _, _, _)

\* the field between the brace at i and the closing brace at j rendered to r
FormatAfter(p, j, n, acc, r) ==
  IF r.exc # "" THEN r ELSE FormatFrom(p, j + 1, n, acc \o r.s)

\* the replacement field whose opening brace is at i and closing brace at j
FormatBraces(p, i, j, n, acc) ==
  IF j = 0 THEN Raises("ValueError")
  ELSE FormatAfter(p, j, n, acc, FormatField(SubSeq(p, i + 1, j - 1), n))

FormatFrom(p, i, n, acc) ==
  IF i > Len(p) THEN Rendered(acc)
  ELSE IF p[i] = "{" THEN
    IF i < Len(p) /\ p[i + 1] = "{" THEN FormatFrom(p, i + 2, n, acc \o <<"{">>)
    ELSE FormatBraces(p, i, Find(p, "}", i + 1), n, acc)
  ELSE IF p[i] = "}" THEN
    IF i < Len(p) /\ p[i + 1] = "}" THEN FormatFrom(p, i + 2, n, acc \o <<"}">>)
    ELSE Raises("ValueError")
  ELSE FormatFrom(p, i + 1, n, acc \o <<p[i]>>)

Format(p, n) == FormatFrom(p, 1, n, <<>>)

\* Rendering is tabulated once for the patterns and counters that occur:
\* the counters of a directory scan, and 1, 10 and 100 of validate_pattern.
PatternTexts ==
  {<<"f", "{", "n", "u", "m", "}">>, <<"{", "{", "n", "u", "m", "}", "}">>,
   <<"{", "n", "u", "m", "!", "s", ":", ".", "0", "}">>, <<"f">>,
   <<"{", "n", "u", "m", ":", "?", "}">>, <<>>,
   <<"{", "n", "u", "m", "}", "{", "0", "}">>}

Counters == (1..(MaxFiles + 1)) \cup {10, 100}

RenderTable == [p \in PatternTexts |-> [n \in Counters |-> Format(p, n)]]

Render(p, n) == RenderTable[p][n]

(* ------------------------------------------------------ os.path.splitext *)
\* TRUE when some character before position dot is not a dot
NonDotBefore(name, dot) == \E i \in 1..(dot - 1) : name[i] # "."

\* os.path.splitext(filename)[1]: leading dots are not an extension
SplitExt(name) ==
  LET dot == RFind(name, ".", Len(name))
  IN IF dot # 0 /\ NonDotBefore(name, dot)
     THEN SubSeq(name, dot, Len(name)) ELSE <<>>

get_file_extension(filename) ==
  IF Find(filename, ".", 1) # 0 THEN SplitExt(filename) ELSE <<>>

\* None is the result when rendering raises KeyError or ValueError; any other
\* exception propagates to the caller.
NewName(r, original_extension) ==
  IF r.exc = "" THEN [exc |-> "", none |-> FALSE, s |-> r.s \o original_extension]
  ELSE IF r.exc \in {"KeyError", "ValueError"}
       THEN [exc |-> "", none |-> TRUE, s |-> <<>>]
  ELSE [exc |-> r.exc, none |-> FALSE, s |-> <<>>]

generate_new_filename(pattern, counter, original_extension) ==
  NewName(Render(pattern, counter), original_extension)

(* ---------------------------------------------------------------- inputs *)
\* Python values passed as arguments: a str, None, or an int (v is its repr)
PyStr(v) == [t |-> "str", v |-> v]

PyNone == [t |-> "none", v |-> <<>>]

PyInt(v) == [t |-> "int", v |-> v]

\* bool(x) of an argument
Truthy(x) == x.t # "none" /\ x.v # <<>> /\ ~(x.t = "int" /\ x.v = <<"0">>)

\* the folder the operations work on, and paths that fail validation
Folder == <<"/", "d">>

MissingPath == <<"/", "m">>

\* a second folder, which exists only where a specification puts it
Folder2 == <<"/", "e">>

FilePath == <<"/", "f">>

\* directories on which os.access denies reading, or writing
NoReadPath == <<"/", "n">>

NoWritePath == <<"/", "u">>

\* "f{num}", "{{num}}", "{num!s:.0}": accepted by validate_pattern
PatPlain == <<"f", "{", "n", "u", "m", "}">>

PatLiteral == <<"{", "{", "n", "u", "m", "}", "}">>

PatBlank == <<"{", "n", "u", "m", "!", "s", ":", ".", "0", "}">>

\* "f", "{num:?}": rejected by validate_pattern
PatNoCounter == <<"f">>

PatBadSpec == <<"{", "n", "u", "m", ":", "?", "}">>

\* a pattern whose rendering raises IndexError: a positional field
PatIndexed == <<"{", "n", "u", "m", "}", "{", "0", "}">>

FilterT == <<".", "t">>

Args(folder_path, pattern, file_filter) ==
  [folder |-> folder_path, pattern |-> pattern, file_filter |-> file_filter]

\* arguments that pass validation: every accepted pattern without a filter,
\* and the plain pattern with the filter ".t"
ValidArgs ==
  {Args(PyStr(Folder), PyStr(p), PyNone) : p \in {PatPlain, PatLiteral, PatBlank}}
    \cup {Args(PyStr(Folder), PyStr(PatPlain), PyStr(FilterT))}

\* arguments with a folder that fails validation
BadFolderArgs ==
  {Args(f, PyStr(PatPlain), PyNone) :
     f \in {PyStr(<<>>), PyStr(MissingPath), PyStr(FilePath)}}

\* arguments with a pattern that fails validation
BadPatternArgs ==
  {Args(PyStr(Folder), p, PyNone) :
     p \in {PyStr(PatNoCounter), PyStr(PatBadSpec), PyStr(<<>>),
            PyInt(<<"5">>)}}

\* arguments with a pattern whose validation raises
RaisingArgs == {Args(PyStr(Folder), PyStr(PatIndexed), PyNone)}

\* arguments naming the second folder
OtherFolderArgs == {Args(PyStr(Folder2), PyStr(PatPlain), PyNone)}

\* the arguments the calls are made with
CallArgs ==
  ValidArgs \cup BadFolderArgs \cup BadPatternArgs \cup RaisingArgs
    \cup OtherFolderArgs

(* ------------------------------------------------------------ filesystem *)
File(i) == [kind |-> "file", id |-> i]

SubDir == [kind |-> "dir", id |-> 0]

\* entries an initial directory is drawn from: the files "f2.t", "x.t" and
\* "b", and a subdirectory "f1.t"
InitEntries ==
  (<<"f", "2", ".", "t">> :> File(1)) @@ (<<"x", ".", "t">> :> File(2)) @@
  (<<"b">> :> File(3)) @@ (<<"f", "1", ".", "t">> :> SubDir)

InitDirs ==
  {[n \in S |-> InitEntries[n]] :
     S \in {T \in SUBSET DOMAIN InitEntries : Cardinality(T) <= MaxFiles}}

\* a set as a sequence in ascending order
RECURSIVE Ascending(_)
Ascending(S) ==
  IF S = {} THEN <<>>
  ELSE LET x == CHOOSE y \in S : \A z \in S \ {y} : StrLess(y, z)
       IN <<x>> \o Ascending(S \ {x})

Reverse(s) == [i \in 1..Len(s) |-> s[Len(s) + 1 - i]]

\* orders in which os.listdir may yield the entries of a directory: the
\* order is arbitrary, ascending and descending stand for all of them
Listings(d) == {Ascending(DOMAIN d), Reverse(Ascending(DOMAIN d))}

\* the directory after the entry src has been moved to the name dst
DirRename(d, src, dst) ==
  [n \in (DOMAIN d \ {src}) \cup {dst} |-> IF n = dst THEN d[src] ELSE d[n]]

\* os.rename(src, dst) inside one directory; oserr injects an OS-level
\* failure.  On an existing target POSIX replaces a file silently and
\* Windows raises FileExistsError; all exceptions are OSError subclasses.
OsRename(d, src, dst, oserr, os) ==
  IF oserr THEN [exc |-> "PermissionError", dir |-> d]
  ELSE IF src \notin DOMAIN d THEN [exc |-> "FileNotFoundError", dir |-> d]
  ELSE IF src = dst THEN [exc |-> "", dir |-> d]
  ELSE IF dst \notin DOMAIN d THEN [exc |-> "", dir |-> DirRename(d, src, dst)]
  ELSE IF os = "windows" THEN [exc |-> "FileExistsError", dir |-> d]
  ELSE IF d[src].kind = "file" /\ d[dst].kind = "file"
       THEN [exc |-> "", dir |-> DirRename(d, src, dst)]
  ELSE IF d[src].kind = "file" THEN [exc |-> "IsADirectoryError", dir |-> d]
  ELSE [exc |-> "NotADirectoryError", dir |-> d]

(* ------------------------------------------------------------- variables *)
VARIABLES
  fs,                   \* folder path -> directory (name -> entry)
  platform,             \* "posix" or "windows": semantics of os.rename
  rename_history,       \* _rename_history
  last_rename_mapping,  \* _last_rename_mapping
  pc,                   \* "idle", "rename_loop", "undo_loop" or "returned"
  loc,                  \* locals of the call in progress
  ret,                  \* the last call made and what it returned
  snapshot,             \* fs when the last recorded rename_files run began
  faults,               \* number of injected OS-level failures so far
  runs                  \* number of rename_files runs that reached the loop

vars == <<fs, platform, rename_history, last_rename_mapping, pc, loc, ret,
          snapshot, faults, runs>>

(* ------------------------------------------------------------ validation *)
IsDir(p) == p \in DOMAIN fs \cup {NoReadPath, NoWritePath}

PathExists(p) == IsDir(p) \/ p = FilePath

Readable(p) == p # NoReadPath

Writable(p) == p # NoWritePath

Result(ok, msg) == [ok |-> ok, msg |-> msg, exc |-> ""]

\* a validation that does not ask for write access
validate_folder_path_read_only(folder_path) ==
  IF ~Truthy(folder_path) THEN Result(FALSE, "Folder path cannot be empty")
  ELSE IF folder_path.t # "str" THEN Result(FALSE, "Folder path must be a string")
  ELSE IF ~PathExists(folder_path.v) THEN Result(FALSE, "Folder does not exist")
  ELSE IF ~IsDir(folder_path.v) THEN Result(FALSE, "Path is not a folder")
  ELSE IF ~Readable(folder_path.v) THEN Result(FALSE, "Folder is not readable")
  ELSE Result(TRUE, "")

validate_folder_path(folder_path) ==
  IF ~Truthy(folder_path) THEN Result(FALSE, "Folder path cannot be empty")
  ELSE IF folder_path.t # "str" THEN Result(FALSE, "Folder path must be a string")
  ELSE IF ~PathExists(folder_path.v) THEN Result(FALSE, "Folder does not exist")
  ELSE IF ~IsDir(folder_path.v) THEN Result(FALSE, "Path is not a folder")
  ELSE IF ~Readable(folder_path.v) THEN Result(FALSE, "Folder is not readable")
  ELSE IF ~Writable(folder_path.v) THEN Result(FALSE, "Folder is not writable")
  ELSE Result(TRUE, "")

\* the first exception raised by rendering with counters 1, 10 and 100
\* the exception of the first of three renderings that raises, or ""
FirstRaised(r1, r10, r100) ==
  IF r1.exc # "" THEN r1.exc ELSE IF r10.exc # "" THEN r10.exc ELSE r100.exc

SampleRender(pattern) ==
  FirstRaised(Render(pattern, 1), Render(pattern, 10), Render(pattern, 100))

\* the verdict on a pattern whose sample renderings raised exc ("" for none):
\* KeyError and ValueError are caught, any other exception propagates
Sampled(exc) ==
  IF exc \in {"KeyError", "ValueError"} THEN Result(FALSE, "Invalid pattern format")
  ELSE IF exc # "" THEN [ok |-> FALSE, msg |-> "", exc |-> exc]
  ELSE Result(TRUE, "")

\* a validation that lets every pattern through
validate_pattern_accepts(pattern) == [ok |-> TRUE, msg |-> "", exc |-> ""]

validate_pattern(pattern) ==
  IF ~Truthy(pattern) THEN Result(FALSE, "Pattern cannot be empty")
  ELSE IF pattern.t # "str" THEN Result(FALSE, "Pattern must be a string")
  ELSE IF ~Contains(pattern.v, <<"{", "n", "u", "m">>)
       THEN Result(FALSE, "Pattern must contain {num} placeholder")
  ELSE Sampled(SampleRender(pattern.v))

(* ------------------------------------------------------------------ scan *)
\* the names of listing that pass the directory and filter tests, in order
RECURSIVE Eligible(_, _, _)
Eligible(d, listing, file_filter) ==
  IF listing = <<>> THEN <<>>
  ELSE LET filename == Head(listing)
           rest == Eligible(d, Tail(listing), file_filter)
       IN IF d[filename].kind = "dir" THEN rest
          ELSE IF Truthy(file_filter)
                  /\ ~EndsWith(Lower(filename), Lower(file_filter.v)) THEN rest
          ELSE <<filename>> \o rest

\* the scan without its final sort: the files in listing order
get_files_in_folder_unsorted(d, listing, file_filter, scan_error) ==
  IF scan_error THEN <<>> ELSE Eligible(d, listing, file_filter)

\* the scan without its tests: every entry of the listing, sorted
get_files_in_folder_every_entry(d, listing, file_filter, scan_error) ==
  IF scan_error THEN <<>> ELSE sorted(listing)

\* the scan without the filter test: every file of the listing, sorted
get_files_in_folder_unfiltered(d, listing, file_filter, scan_error) ==
  IF scan_error THEN <<>> ELSE sorted(Eligible(d, listing, PyNone))

\* listing is what os.listdir yields: the entries in some order; scan_error
\* is an OSError raised during the scan, which the function turns into []
get_files_in_folder(d, listing, file_filter, scan_error) ==
  IF scan_error THEN <<>> ELSE sorted(Eligible(d, listing, file_filter))

(* --------------------------------------------------------------- results *)
\* what a call returned; the fields a function does not return keep these
\* defaults.  exc names an exception that left the function uncaught.
NoRet ==
  [op |-> "none", folder |-> PyNone, pattern |-> PyNone, file_filter |-> PyNone,
   ok |-> FALSE, msg |-> "", success_count |-> 0, error_count |-> 0,
   errors |-> <<>>, mapping |-> <<>>, preview |-> <<>>, files |-> <<>>,
   outcomes |-> <<>>, recorded |-> FALSE, scan_error |-> FALSE,
   list_error |-> FALSE, exc |-> ""]

\* scan_error is kept with the result: the OSError, if any, that the
\* directory scan of the call met
Call(op, folder_path, pattern, file_filter, scan_error) ==
  [NoRet EXCEPT !.op = op, !.folder = folder_path, !.pattern = pattern,
                !.file_filter = file_filter, !.scan_error = scan_error]

Error(msg, name) == [msg |-> msg, name |-> name]

NoLoc ==
  [folder |-> <<>>, pattern |-> PyNone, file_filter |-> PyNone, files |-> <<>>,
   counter |-> 0, success_count |-> 0, error_count |-> 0, errors |-> <<>>,
   rename_mapping |-> <<>>, outcomes |-> <<>>]

NoSnapshot == [valid |-> FALSE, folder |-> <<>>, dir |-> <<>>]

\* the entry stored the wrong way round: rename_mapping[value] = key
DictSet_swapped(m, key, value) ==
  IF \E i \in 1..Len(m) : m[i][1] = value
  THEN [i \in 1..Len(m) |-> IF m[i][1] = value THEN <<value, key>> ELSE m[i]]
  ELSE Append(m, <<value, key>>)

\* rename_mapping[key] = value on an insertion-ordered dict of <<key, value>>
DictSet(m, key, value) ==
  IF \E i \in 1..Len(m) : m[i][1] = key
  THEN [i \in 1..Len(m) |-> IF m[i][1] = key THEN <<key, value>> ELSE m[i]]
  ELSE Append(m, <<key, value>>)

Keys(m) == {m[i][1] : i \in 1..Len(m)}

(* --------------------------------------------------------------- preview *)
\* what the validations at the head of a call give: ok, or the message
\* returned, or the exception exc of validate_pattern that nothing catches
Checked(vf, vp) ==
  IF ~vf.ok THEN [ok |-> FALSE, msg |-> vf.msg, exc |-> ""]
  ELSE IF vp.exc # "" THEN [ok |-> FALSE, msg |-> "", exc |-> vp.exc]
  ELSE IF ~vp.ok THEN [ok |-> FALSE, msg |-> vp.msg, exc |-> ""]
  ELSE [ok |-> TRUE, msg |-> "", exc |-> ""]

\* validate_folder_path, then validate_pattern
Validation(folder_path, pattern) ==
  Checked(validate_folder_path(folder_path), validate_pattern(pattern))

\* the loop of get_rename_preview from position counter on; exc is an
\* exception of generate_new_filename that nothing catches
RECURSIVE PreviewFrom(_, _, _)

\* the loop body for old_filename with new name g, before the pairs rest of
\* the files after it: a pair is appended only for a non-empty new name
PreviewPair(old_filename, g, rest) ==
  IF g.exc # "" THEN [exc |-> g.exc, pairs |-> <<>>]
  ELSE IF rest.exc # "" THEN rest
  ELSE IF ~g.none /\ g.s # <<>>
       THEN [exc |-> "", pairs |-> <<<<old_filename, g.s>>>> \o rest.pairs]
  ELSE rest

PreviewFrom(files, pattern, counter) ==
  IF counter > Len(files) THEN [exc |-> "", pairs |-> <<>>]
  ELSE PreviewPair(files[counter],
                   generate_new_filename(pattern, counter,
                                         get_file_extension(files[counter])),
                   PreviewFrom(files, pattern, counter + 1))

\* the value get_rename_preview returns for the plan p of the scanned files
Planned(call, files, p) ==
  IF p.exc # "" THEN [call EXCEPT !.exc = p.exc]
  ELSE [call EXCEPT !.preview = p.pairs, !.files = files]

\* get_rename_preview after the validations gave v and the scan gave files
PreviewAfter(call, v, pattern, files) ==
  IF v.exc # "" THEN [call EXCEPT !.exc = v.exc]
  ELSE IF ~v.ok THEN [call EXCEPT !.msg = v.msg]
  ELSE IF files = <<>>
       THEN [call EXCEPT !.msg = "No files found matching filter"]
  ELSE Planned(call, files, PreviewFrom(files, pattern.v, 1))

get_rename_preview(folder_path, pattern, file_filter, listing, scan_error) ==
  PreviewAfter(Call("get_rename_preview", folder_path, pattern, file_filter,
                    scan_error),
               Validation(folder_path, pattern), pattern,
               get_files_in_folder(fs[folder_path.v], listing, file_filter,
                                   scan_error))

\* the listings os.listdir may yield for a folder argument
ListingsOf(folder_path) ==
  IF validate_folder_path(folder_path).ok
  THEN Listings(fs[folder_path.v]) ELSE {<<>>}

Preview ==
  /\ pc = "idle"
  /\ \E a \in CallArgs, scan_error \in BOOLEAN :
       \E listing \in ListingsOf(a.folder) :
         ret' = get_rename_preview(a.folder, a.pattern, a.file_filter,
                                   listing, scan_error)
  /\ pc' = "returned"
  /\ snapshot' = NoSnapshot
  /\ UNCHANGED <<fs, platform, rename_history, last_rename_mapping, loc,
                 faults, runs>>

(* ---------------------------------------------------- validate_rename_safe *)
\* the first new name of the sequence that is in the set existing, or <<>>
RECURSIVE FirstExisting(_, _)
FirstExisting(new_filenames, existing) ==
  IF new_filenames = <<>> THEN <<>>
  ELSE IF Head(new_filenames) \in existing THEN <<Head(new_filenames)>>
  ELSE FirstExisting(Tail(new_filenames), existing)

\* the new names of a plan
NewNames(preview) == [i \in 1..Len(preview) |-> preview[i][2]]

\* the conflict checks of validate_rename_safe; list_error is an OSError of
\* its os.listdir, which is not caught
Conflicts(call, new_filenames, existing_files, list_error) ==
  LET distinct == {new_filenames[i] : i \in 1..Len(new_filenames)}
      hit == FirstExisting(new_filenames, existing_files)
  IN IF Len(new_filenames) # Cardinality(distinct)
     THEN [call EXCEPT !.msg = "Pattern would create duplicate filenames"]
     ELSE IF list_error THEN [call EXCEPT !.exc = "OSError"]
     ELSE IF hit # <<>>
          THEN [call EXCEPT !.msg = "Target filename already exists",
                            !.errors = <<Error("Target filename already exists", hit[1])>>]
     ELSE [call EXCEPT !.ok = TRUE, !.msg = "Rename operation appears safe"]

\* validate_rename_safe after the validations gave v and the preview gave pv
SafeAfter(call, v, pv, existing_files, list_error) ==
  IF v.exc # "" THEN [call EXCEPT !.exc = v.exc]
  ELSE IF ~v.ok THEN [call EXCEPT !.msg = v.msg]
  ELSE IF pv.exc # "" THEN [call EXCEPT !.exc = pv.exc]
  ELSE IF pv.msg # "" THEN [call EXCEPT !.msg = pv.msg]
  ELSE Conflicts(call, NewNames(pv.preview), existing_files, list_error)

validate_rename_safe(folder_path, pattern, file_filter, listing, scan_error, list_error) ==
  SafeAfter([Call("validate_rename_safe", folder_path, pattern, file_filter,
                  scan_error) EXCEPT !.list_error = list_error],
            Validation(folder_path, pattern),
            get_rename_preview(folder_path, pattern, file_filter, listing,
                               scan_error),
            DOMAIN fs[folder_path.v], list_error)

Safe ==
  /\ pc = "idle"
  /\ \E a \in CallArgs, scan_error \in BOOLEAN, list_error \in BOOLEAN :
       \E listing \in ListingsOf(a.folder) :
         ret' = validate_rename_safe(a.folder, a.pattern, a.file_filter,
                                     listing, scan_error, list_error)
  /\ pc' = "returned"
  /\ snapshot' = NoSnapshot
  /\ UNCHANGED <<fs, platform, rename_history, last_rename_mapping, loc,
                 faults, runs>>

(* ---------------------------------------------------------- rename_files *)
\* what rename_files does after the validations gave v and the scan gave
\* files: go on to the loop with the files, or return msg, or raise exc
Scanned(v, files) ==
  IF v.exc # "" THEN [go |-> FALSE, msg |-> "", exc |-> v.exc, files |-> <<>>]
  ELSE IF ~v.ok THEN [go |-> FALSE, msg |-> v.msg, exc |-> "", files |-> <<>>]
  ELSE IF files = <<>>
       THEN [go |-> FALSE, msg |-> "No files found", exc |-> "", files |-> <<>>]
  ELSE [go |-> TRUE, msg |-> "", exc |-> "", files |-> files]

\* rename_files up to the loop: validation and scan.  An early return gives
\* (0, 0, [message], {}); otherwise the locals of the loop are set up.
RenameStart ==
  /\ pc = "idle"
  /\ \E a \in CallArgs, scan_error \in BOOLEAN :
       \E listing \in ListingsOf(a.folder) :
         \E call \in {Call("rename_files", a.folder, a.pattern, a.file_filter,
                          scan_error)},
            s \in {Scanned(Validation(a.folder, a.pattern),
                           get_files_in_folder(fs[a.folder.v], listing,
                                               a.file_filter, scan_error))} :
           IF s.go
           THEN /\ runs < MaxRuns
                /\ runs' = runs + 1
                /\ pc' = "rename_loop"
                /\ loc' = [NoLoc EXCEPT !.folder = a.folder.v,
                                        !.pattern = a.pattern,
                                        !.file_filter = a.file_filter,
                                        !.files = s.files, !.counter = 1]
                /\ ret' = [call EXCEPT !.files = s.files]
                /\ snapshot' = [valid |-> TRUE, folder |-> a.folder.v,
                                 dir |-> fs[a.folder.v]]
           ELSE /\ pc' = "returned"
                /\ loc' = loc
                /\ runs' = runs
                /\ ret' = IF s.exc # "" THEN [call EXCEPT !.exc = s.exc]
                          ELSE [call EXCEPT !.errors = <<Error(s.msg, <<>>)>>]
                /\ snapshot' = NoSnapshot
  /\ UNCHANGED <<fs, platform, rename_history, last_rename_mapping, faults>>

\* the check left out: nothing is ever reported as existing
os_path_exists_never(d, name) == FALSE

\* os.path.exists of a name inside the directory d
os_path_exists(d, name) == name \in DOMAIN d

\* a loop that gives up at the first failed item
MoreItems_until_error(l) == l.counter <= Len(l.files) /\ l.error_count = 0

\* the for loop has another file to process
MoreItems(l) == l.counter <= Len(l.files)

\* a record that has the two counts the wrong way round
Operation_counts_swapped(l) ==
  [folder |-> l.folder, pattern |-> l.pattern,
   success_count |-> l.error_count, error_count |-> l.success_count,
   rename_mapping |-> l.rename_mapping]

\* the history record of a finished run (the timestamp is left out)
Operation(l) ==
  [folder |-> l.folder, pattern |-> l.pattern,
   success_count |-> l.success_count, error_count |-> l.error_count,
   rename_mapping |-> l.rename_mapping]

\* a run that renamed nothing is not recorded
Recorded_unless_empty(history, l) ==
  IF l.rename_mapping = <<>> THEN history ELSE Append(history, Operation(l))

\* _rename_history.append(operation)
Recorded(history, l) == Append(history, Operation(l))

\* the locals after the loop body has run for files[counter] with outcome o
Counted(l, o, new_filename, msg, name) ==
  [l EXCEPT
     !.counter = @ + 1,
     !.success_count = IF o = "Renamed" THEN @ + 1 ELSE @,
     !.error_count = IF o = "Renamed" THEN @ ELSE @ + 1,
     !.errors = IF o = "Renamed" THEN @ ELSE Append(@, Error(msg, name)),
     !.rename_mapping = IF o = "Renamed"
                        THEN DictSet(@, new_filename, l.files[l.counter]) ELSE @,
     !.outcomes = Append(@, [old |-> l.files[l.counter], new |-> new_filename,
                             outcome |-> o])]

\* the rename of an item with new name g is attempted
Attempted(g, exists) == g.exc = "" /\ ~g.none /\ g.s # <<>> /\ ~exists

\* the locals after the loop body for the file at the counter, whose new name
\* is g; exists is os.path.exists(new_path) and r what os.rename gives
ItemCounted(l, old_filename, g, exists, r) ==
  IF g.exc # ""
  THEN Counted(l, "Failed", <<>>, "Unexpected error for", old_filename)
  ELSE IF g.none \/ g.s = <<>>
  THEN Counted(l, "Failed", <<>>, "Could not generate new name for", old_filename)
  ELSE IF exists
  THEN Counted(l, "SkippedExists", g.s, "Target file already exists", g.s)
  ELSE IF r.exc # ""
  THEN Counted(l, "Failed", g.s, "Failed to rename", old_filename)
  ELSE Counted(l, "Renamed", g.s, "", <<>>)

\* one iteration of the loop of rename_files; the last iteration goes on to
\* store the operation in the history and return
RenameItem ==
  /\ pc = "rename_loop"
  /\ \E oserr \in (IF faults < MaxFaults THEN BOOLEAN ELSE {FALSE}),
        g \in {generate_new_filename(loc.pattern.v, loc.counter,
                                     get_file_extension(loc.files[loc.counter]))} :
       \E exists \in {os_path_exists(fs[loc.folder], g.s)},
          r \in {OsRename(fs[loc.folder], loc.files[loc.counter], g.s, oserr,
                          platform)} :
         \E l \in {ItemCounted(loc, loc.files[loc.counter], g, exists, r)} :
           /\ fs' = IF Attempted(g, exists)
                    THEN [fs EXCEPT ![loc.folder] = r.dir] ELSE fs
           /\ faults' = IF Attempted(g, exists) /\ oserr THEN faults + 1 ELSE faults
           /\ IF MoreItems(l)
              THEN /\ loc' = l
                   /\ UNCHANGED <<rename_history, last_rename_mapping, pc, ret>>
              ELSE /\ rename_history' = Recorded(rename_history, l)
                   /\ last_rename_mapping' = l.rename_mapping
                   /\ ret' = [ret EXCEPT !.success_count = l.success_count,
                                         !.error_count = l.error_count,
                                         !.errors = l.errors,
                                         !.mapping = l.rename_mapping,
                                         !.outcomes = l.outcomes,
                                         !.recorded = TRUE]
                   /\ pc' = "returned"
                   /\ loc' = NoLoc
  /\ UNCHANGED <<platform, snapshot, runs>>

(* ------------------------------------------------------- undo_last_rename *)
\* an undo that tells an empty history as a record without a mapping
EarlyReturn_no_mapping(history) ==
  IF history = <<>> \/ history[Len(history)].rename_mapping = <<>>
  THEN "No rename mapping available for undo"
  ELSE ""

\* the message of the early return of undo_last_rename, "" when it goes on to
\* the loop
EarlyReturn(history) ==
  IF history = <<>> THEN "No rename operations in history"
  ELSE IF history[Len(history)].rename_mapping = <<>>
  THEN "No rename mapping available for undo"
  ELSE ""

\* the characters of the two early-return messages
MessageText(msg) ==
  IF msg = "No rename operations in history"
  THEN <<"N", "o", " ", "r", "e", "n", "a", "m", "e", " ",
         "o", "p", "e", "r", "a", "t", "i", "o", "n", "s", " ",
         "i", "n", " ", "h", "i", "s", "t", "o", "r", "y">>
  ELSE IF msg = "No rename mapping available for undo"
  THEN <<"N", "o", " ", "r", "e", "n", "a", "m", "e", " ",
         "m", "a", "p", "p", "i", "n", "g", " ",
         "a", "v", "a", "i", "l", "a", "b", "l", "e", " ",
         "f", "o", "r", " ", "u", "n", "d", "o">>
  ELSE <<>>

\* an undo that works in the folder of the oldest record
UndoFolder_of_first(history) == history[1].folder

\* folder_path of undo_last_rename: the folder of the last record
UndoFolder(history) == history[Len(history)].folder

\* undo_last_rename up to the loop: the two early returns, or the locals
UndoStart ==
  /\ pc = "idle"
  /\ LET call == [NoRet EXCEPT !.op = "undo_last_rename"]
         last_operation == rename_history[Len(rename_history)]
     IN IF EarlyReturn(rename_history) # ""
        THEN /\ ret' = [call EXCEPT !.msg = EarlyReturn(rename_history)]
             /\ pc' = "returned"
             /\ loc' = loc
        ELSE /\ ret' = call
             /\ pc' = "undo_loop"
             /\ loc' = [NoLoc EXCEPT !.folder = UndoFolder(rename_history),
                                     !.rename_mapping = last_operation.rename_mapping,
                                     !.counter = 1]
  /\ UNCHANGED <<fs, platform, rename_history, last_rename_mapping, snapshot,
                 faults, runs>>

\* the locals after the undo loop body has run for one item with outcome o
Undone(l, o, msg) ==
  LET new_filename == l.rename_mapping[l.counter][1]
      old_filename == l.rename_mapping[l.counter][2]
  IN [l EXCEPT
        !.counter = @ + 1,
        !.success_count = IF o = "Restored" THEN @ + 1 ELSE @,
        !.error_count = IF o = "Restored" THEN @ ELSE @ + 1,
        !.errors = IF o = "Restored" THEN @ ELSE Append(@, Error(msg, new_filename)),
        !.outcomes = Append(@, [old |-> old_filename, new |-> new_filename,
                                outcome |-> o])]

\* an undo that reports success only when no entry failed
UndoResult_all_or_nothing(l) ==
  [NoRet EXCEPT
     !.op = "undo_last_rename",
     !.ok = l.success_count > 0 /\ l.error_count = 0,
     !.msg = IF l.success_count > 0 /\ l.error_count = 0
             THEN "Successfully undid rename operation"
             ELSE "Failed to undo rename operation",
     !.success_count = l.success_count,
     !.error_count = l.error_count,
     !.errors = l.errors,
     !.outcomes = l.outcomes]

\* the value undo_last_rename returns after the loop
UndoResult(l) ==
  [NoRet EXCEPT
     !.op = "undo_last_rename",
     !.ok = l.success_count > 0,
     !.msg = IF l.success_count > 0 /\ l.error_count = 0
             THEN "Successfully undid rename operation"
             ELSE IF l.success_count > 0 THEN "Partially undone"
             ELSE "Failed to undo rename operation",
     !.success_count = l.success_count,
     !.error_count = l.error_count,
     !.errors = l.errors,
     !.outcomes = l.outcomes]

\* an undo loop that gives up at the first failed entry
MoreEntries_until_error(l) ==
  l.counter <= Len(l.rename_mapping) /\ l.error_count = 0

\* the for loop over rename_mapping.items() has another entry
MoreEntries(l) == l.counter <= Len(l.rename_mapping)

\* one iteration of the loop of undo_last_rename; the last iteration goes on
\* to pop the history and return
UndoItem ==
  /\ pc = "undo_loop"
  /\ \E oserr \in (IF faults < MaxFaults THEN BOOLEAN ELSE {FALSE}) :
       LET new_filename == loc.rename_mapping[loc.counter][1]
           old_filename == loc.rename_mapping[loc.counter][2]
           d == fs[loc.folder]
           found == os_path_exists(d, new_filename)
           r == OsRename(d, new_filename, old_filename, oserr, platform)
           l == IF ~found THEN Undone(loc, "NotFound", "File not found")
                ELSE IF r.exc # "" THEN Undone(loc, "Failed", "Failed to undo rename")
                ELSE Undone(loc, "Restored", "")
       IN /\ fs' = IF found THEN [fs EXCEPT ![loc.folder] = r.dir] ELSE fs
          /\ faults' = IF found /\ oserr THEN faults + 1 ELSE faults
          /\ IF MoreEntries(l)
             THEN /\ loc' = l
                  /\ UNCHANGED <<rename_history, pc, ret>>
             ELSE /\ rename_history' = SubSeq(rename_history, 1, Len(rename_history) - 1)
                  /\ ret' = UndoResult(l)
                  /\ pc' = "returned"
                  /\ loc' = NoLoc
  /\ UNCHANGED <<platform, last_rename_mapping, snapshot, runs>>

(* --------------------------------------------------- clear_rename_history *)
\* a clear that drops only the last record
Clear_last_record ==
  /\ pc = "idle"
  /\ rename_history' = IF rename_history = <<>> THEN <<>>
                       ELSE SubSeq(rename_history, 1, Len(rename_history) - 1)
  /\ ret' = [NoRet EXCEPT !.op = "clear_rename_history"]
  /\ pc' = "returned"
  /\ snapshot' = NoSnapshot
  /\ UNCHANGED <<fs, platform, last_rename_mapping, loc, faults, runs>>

Clear ==
  /\ pc = "idle"
  /\ rename_history' = <<>>
  /\ ret' = [NoRet EXCEPT !.op = "clear_rename_history"]
  /\ pc' = "returned"
  /\ snapshot' = NoSnapshot
  /\ UNCHANGED <<fs, platform, last_rename_mapping, loc, faults, runs>>

(* ----------------------------------------------------------- environment *)
\* Somebody else removes a renamed file of the last recorded run, the case
\* the os.path.exists test of undo_last_rename is there for.
Remove ==
  /\ pc = "idle"
  /\ rename_history # <<>>
  /\ \E e \in {rename_history[Len(rename_history)].rename_mapping[i] :
                  i \in 1..Len(rename_history[Len(rename_history)].rename_mapping)} :
       /\ e[1] \in DOMAIN fs[rename_history[Len(rename_history)].folder]
       /\ fs' = [fs EXCEPT ![rename_history[Len(rename_history)].folder] =
                    [n \in DOMAIN @ \ {e[1]} |-> @[n]]]
  /\ UNCHANGED <<platform, rename_history, last_rename_mapping, pc, loc, ret,
                 snapshot, faults, runs>>

(* ---------------------------------------------------------------- caller *)
\* The caller has taken the returned value and is back at its menu.  The
\* snapshot is kept only after a recorded run, for the undo that may follow.
Return ==
  /\ pc = "returned"
  /\ pc' = "idle"
  /\ ret' = NoRet
  /\ snapshot' = IF ret.op = "rename_files" /\ ret.recorded
                 THEN snapshot ELSE NoSnapshot
  /\ UNCHANGED <<fs, platform, rename_history, last_rename_mapping, loc,
                 faults, runs>>

(* --------------------------------------------------------- specification *)
Init ==
  /\ fs \in {[p \in {Folder} |-> d] : d \in InitDirs}
  /\ platform \in {"posix", "windows"}
  /\ rename_history = <<>>
  /\ last_rename_mapping = <<>>
  /\ pc = "idle"
  /\ loc = NoLoc
  /\ ret = NoRet
  /\ snapshot = NoSnapshot
  /\ faults = 0
  /\ runs = 0

\* The calls that change the directory or the history, and the caller.
Next ==
  \/ RenameStart
  \/ RenameItem
  \/ UndoStart
  \/ UndoItem
  \/ Clear
  \/ Return

Spec == Init /\ [][Next]_vars

\* The read-only calls, on the directories and histories that runs of
\* rename_files produce.
QueryNext ==
  \/ Preview
  \/ Safe
  \/ RenameStart
  \/ RenameItem
  \/ Return

QuerySpec == Init /\ [][QueryNext]_vars

\* Runs and undos on directories from which renamed files may disappear.
UndoNext ==
  \/ RenameStart
  \/ RenameItem
  \/ UndoStart
  \/ UndoItem
  \/ Remove
  \/ Return

UndoSpec == Init /\ [][UndoNext]_vars

\* Previews and runs on directories whose names have no dot, one dot,
\* several dots, or a leading dot only.
NameEntries ==
  (<<".", "g">> :> File(1)) @@ (<<"a", ".", "b", ".", "t">> :> File(2)) @@
  (<<"b">> :> File(3)) @@ (<<"x", ".", "t">> :> File(4))

NameDirs ==
  {[n \in S |-> NameEntries[n]] :
     S \in {T \in SUBSET DOMAIN NameEntries : Cardinality(T) <= MaxFiles}}

NameInit ==
  /\ fs \in {[p \in {Folder} |-> d] : d \in NameDirs}
  /\ platform \in {"posix", "windows"}
  /\ rename_history = <<>>
  /\ last_rename_mapping = <<>>
  /\ pc = "idle"
  /\ loc = NoLoc
  /\ ret = NoRet
  /\ snapshot = NoSnapshot
  /\ faults = 0
  /\ runs = 0

NameNext ==
  \/ Preview
  \/ RenameStart
  \/ RenameItem
  \/ Return

NameSpec == NameInit /\ [][NameNext]_vars

\* a rename_files call that passes validation and finds files: it goes on
\* to the rename loop
RunStart == RenameStart /\ pc' = "rename_loop"

\* Runs, and a caller that keeps calling undo_last_rename with no other call
\* in between once the runs are made: every loop runs to its end, every call
\* returns to the menu, and the menu does not stay idle.
DrainNext ==
  \/ RunStart
  \/ RenameItem
  \/ UndoStart
  \/ UndoItem
  \/ Return

DrainSpec ==
  /\ Init
  /\ [][DrainNext]_vars
  /\ WF_vars(RenameItem)
  /\ WF_vars(UndoItem)
  /\ WF_vars(Return)
  /\ WF_vars(UndoStart)

\* the folder arguments validate_folder_path is called with: empty, None,
\* numbers, a missing path, a file, directories without read or write
\* access, and the folder
FolderInputs ==
  {PyStr(<<>>), PyNone, PyInt(<<"0">>), PyInt(<<"5">>), PyStr(MissingPath),
   PyStr(FilePath), PyStr(NoReadPath), PyStr(NoWritePath), PyStr(Folder)}

\* a call of validate_folder_path
ValidateFolder ==
  /\ pc = "idle"
  /\ \E folder_path \in FolderInputs :
       ret' = [Call("validate_folder_path", folder_path, PyNone, PyNone, FALSE)
                 EXCEPT !.ok = validate_folder_path(folder_path).ok,
                        !.msg = validate_folder_path(folder_path).msg]
  /\ pc' = "returned"
  /\ UNCHANGED <<fs, platform, rename_history, last_rename_mapping, loc,
                 snapshot, faults, runs>>

\* Folder validations, before and after runs.
FolderNext ==
  \/ ValidateFolder
  \/ RunStart
  \/ RenameItem
  \/ Return

FolderSpec == Init /\ [][FolderNext]_vars

\* Runs and undos on two folders.
OtherDirs ==
  {(<<"x", ".", "t">> :> File(5)),
   (<<"x", ".", "t">> :> File(5)) @@ (<<"f", "1", ".", "t">> :> File(6))}

TwoFolderInit ==
  /\ fs \in {(Folder :> d) @@ (Folder2 :> e) : d \in InitDirs, e \in OtherDirs}
  /\ platform \in {"posix", "windows"}
  /\ rename_history = <<>>
  /\ last_rename_mapping = <<>>
  /\ pc = "idle"
  /\ loc = NoLoc
  /\ ret = NoRet
  /\ snapshot = NoSnapshot
  /\ faults = 0
  /\ runs = 0

TwoFolderNext ==
  \/ RunStart
  \/ RenameItem
  \/ UndoStart
  \/ UndoItem
  \/ Return

TwoFolderSpec == TwoFolderInit /\ [][TwoFolderNext]_vars

(* ================================================================ claims *)
\* the new name rename_files plans for the file the loop is at
PlannedNew ==
  generate_new_filename(loc.pattern.v, loc.counter,
                        get_file_extension(loc.files[loc.counter])).s

\* counts, errors and outcomes after a step of the rename loop: the locals,
\* or the returned value when the step was the last one
AfterItem == IF pc' = "rename_loop" THEN loc' ELSE ret'

\* the undo loop is at an item whose file exists and whose old name is taken
UndoTargetExists ==
  /\ pc = "undo_loop"
  /\ LET new_filename == loc.rename_mapping[loc.counter][1]
         old_filename == loc.rename_mapping[loc.counter][2]
     IN /\ new_filename \in DOMAIN fs[loc.folder]
        /\ old_filename \in DOMAIN fs[loc.folder]
        /\ new_filename # old_filename

\* C1: when undo_last_rename directly follows a recorded rename_files run
\* (no OS-level failure injected), the set of filenames of the folder is
\* again the set that was there before the run.
C1_RoundTrip ==
  (pc = "returned" /\ ret.op = "undo_last_rename" /\ snapshot.valid /\ faults = 0)
    => DOMAIN fs[snapshot.folder] = DOMAIN snapshot.dir

\* C2: no rename, forward or undo, targets a name that exists in the
\* directory: the undo loop never meets an item whose old name is taken, every
\* step that changes the directory adds a name that was not there, and the
\* number of entries never decreases.
C2_NoDestructiveOverwrite ==
  [][/\ ~UndoTargetExists
     /\ \A p \in DOMAIN fs :
          /\ fs'[p] # fs[p] => DOMAIN fs'[p] \ DOMAIN fs[p] # {}
          /\ Cardinality(DOMAIN fs'[p]) >= Cardinality(DOMAIN fs[p])]_vars

\* C3: when the rename loop is at an item whose planned new name exists in the
\* directory, the step renames nothing (the directory is unchanged), counts one
\* more failure and no more success, and reports "Target file already exists"
\* for that name.
C3_NoOverwriteInExecute ==
  [][(pc = "rename_loop" /\ PlannedNew # <<>>
        /\ PlannedNew \in DOMAIN fs[loc.folder])
       => /\ fs' = fs
          /\ AfterItem.success_count = loc.success_count
          /\ AfterItem.error_count = loc.error_count + 1
          /\ AfterItem.errors =
               Append(loc.errors, Error("Target file already exists", PlannedNew))
          /\ AfterItem.outcomes[loc.counter].outcome = "SkippedExists"]_vars

\* C3 witness: a run has returned in which one item was renamed and another
\* was skipped because its new name, not its own, was taken.
C3_Witness ==
  /\ pc = "returned"
  /\ ret.op = "rename_files"
  /\ ret.success_count > 0
  /\ \E i \in 1..Len(ret.outcomes) :
       /\ ret.outcomes[i].outcome = "SkippedExists"
       /\ ret.outcomes[i].new # ret.outcomes[i].old

\* C4: every undo_last_rename call made with a non-empty history returns with
\* the most recent record removed from the history.
C4_UndoPops ==
  [][(pc # "returned" /\ pc' = "returned" /\ ret'.op = "undo_last_rename"
        /\ rename_history # <<>>)
       => rename_history' = SubSeq(rename_history, 1, Len(rename_history) - 1)]_vars

\* a rename_files call that went through its loop has returned
RunReturned == pc = "returned" /\ ret.op = "rename_files" /\ ret.recorded

\* C7: while rename_files is in its loop the items before the counter, and
\* only they, have been processed; when the run returns, every matched file
\* has been processed once, in plan order, with one of the outcomes Renamed,
\* SkippedExists or Failed, and success_count + error_count is the number of
\* matched files.
C7_ContinueOnError ==
  /\ pc = "rename_loop"
       => /\ loc.counter \in 1..Len(loc.files)
          /\ Len(loc.outcomes) = loc.counter - 1
          /\ loc.success_count + loc.error_count = loc.counter - 1
  /\ RunReturned
       => /\ Len(ret.outcomes) = Len(ret.files)
          /\ \A i \in 1..Len(ret.files) :
               /\ ret.outcomes[i].old = ret.files[i]
               /\ ret.outcomes[i].outcome \in {"Renamed", "SkippedExists", "Failed"}
          /\ ret.success_count + ret.error_count = Len(ret.files)
          /\ ret.success_count =
               Cardinality({i \in 1..Len(ret.outcomes) :
                              ret.outcomes[i].outcome = "Renamed"})

\* C7 witness: a run has returned in which an item was renamed after an
\* earlier item had failed.
C7_Witness ==
  /\ RunReturned
  /\ \E i, j \in 1..Len(ret.outcomes) :
       /\ i < j
       /\ ret.outcomes[i].outcome = "Failed"
       /\ ret.outcomes[j].outcome = "Renamed"

\* C8: a rename_files run leaves the history alone until it returns from its
\* loop, and the returning step appends exactly one record: the history is
\* one longer, the earlier records are unchanged, and the new last record
\* carries the run's reverse mapping, also when that mapping is empty.
C8_OneRecordPerRun ==
  [][/\ (pc = "idle" /\ pc' = "rename_loop") => rename_history' = rename_history
     /\ (pc = "rename_loop" /\ pc' = "rename_loop")
          => rename_history' = rename_history
     /\ (pc = "rename_loop" /\ pc' = "returned")
          => /\ Len(rename_history') = Len(rename_history) + 1
             /\ SubSeq(rename_history', 1, Len(rename_history)) = rename_history
             /\ rename_history'[Len(rename_history')].rename_mapping = ret'.mapping
             /\ rename_history'[Len(rename_history')].folder = loc.folder]_vars

\* C8 witness: a fully failed run, its reverse mapping empty, has been
\* recorded as the second record of the history.
C8_Witness ==
  /\ RunReturned
  /\ ret.success_count = 0
  /\ Len(rename_history) = 2
  /\ rename_history[2].rename_mapping = <<>>

\* C10: when a rename_files run has returned, the reverse mapping of the last
\* history record has one entry new -> old for each renamed item and none for
\* the others: every key names an entry of the directory, which is the file
\* that was called old before the run; every matched file that is not a value
\* of the mapping still has its name; the keys are distinct and their number
\* is success_count.
C10_ReverseMapping ==
  RunReturned
    => LET operation == rename_history[Len(rename_history)]
           m == operation.rename_mapping
           d == fs[operation.folder]
           before == snapshot.dir
       IN /\ Len(m) = ret.success_count
          /\ Cardinality({m[i][1] : i \in 1..Len(m)}) = Len(m)
          /\ \A i \in 1..Len(m) :
               /\ m[i][1] \in DOMAIN d
               /\ m[i][2] \in DOMAIN before
               /\ d[m[i][1]] = before[m[i][2]]
               /\ \E k \in 1..Len(ret.outcomes) :
                    ret.outcomes[k] =
                      [old |-> m[i][2], new |-> m[i][1], outcome |-> "Renamed"]
          /\ \A k \in 1..Len(ret.files) :
               (\A i \in 1..Len(m) : m[i][2] # ret.files[k])
                 => /\ ret.outcomes[k].outcome # "Renamed"
                    /\ ret.files[k] \in DOMAIN d
                    /\ d[ret.files[k]] = before[ret.files[k]]

\* C10 witness: a run has returned that renamed one item and failed on
\* another.
C10_Witness ==
  /\ RunReturned
  /\ ret.success_count = 1
  /\ ret.error_count = 1
  /\ Len(rename_history[Len(rename_history)].rename_mapping) = 1

\* the files of directory d that pass the filter
Matched(d, file_filter) ==
  {filename \in DOMAIN d :
     /\ d[filename].kind = "file"
     /\ Truthy(file_filter) => EndsWith(Lower(filename), Lower(file_filter.v))}

\* the plan that has one pair per file, counters 1..N in the order of files
FullPlan(files, pattern) ==
  [i \in 1..Len(files) |->
     <<files[i], Render(pattern, i).s \o get_file_extension(files[i])>>]

\* a get_rename_preview call has returned
PreviewReturned == pc = "returned" /\ ret.op = "get_rename_preview"

\* C5: when get_rename_preview returns for a valid folder with at least one
\* matched file and an accepted pattern (the scan not failing), its plan has
\* one pair per matched file, in ascending order of the old names, the i-th
\* new name being the pattern rendered with i followed by the old extension.
C5_PreviewComplete ==
  (/\ PreviewReturned
   /\ validate_folder_path(ret.folder).ok
   /\ validate_pattern(ret.pattern).ok
   /\ ~ret.scan_error
   /\ Matched(fs[ret.folder.v], ret.file_filter) # {})
    => /\ ret.exc = ""
       /\ ret.preview =
            FullPlan(Ascending(Matched(fs[ret.folder.v], ret.file_filter)),
                     ret.pattern.v)

\* the call whose result is held, made again in this state, returns that
\* result for every order of the directory listing
SamePreviewAgain ==
  \A listing \in ListingsOf(ret.folder) :
    get_rename_preview(ret.folder, ret.pattern, ret.file_filter, listing,
                       ret.scan_error) = ret

\* C6: a get_rename_preview call changes neither the directories nor the
\* history nor the last mapping, and the same call made again in the state it
\* leaves returns the same result, whatever order the directory listing has.
C6_PreviewNoSideEffects ==
  /\ [][(pc = "idle" /\ pc' = "returned" /\ ret'.op = "get_rename_preview")
          => /\ fs' = fs
             /\ rename_history' = rename_history
             /\ last_rename_mapping' = last_rename_mapping]_vars
  /\ [](PreviewReturned => SamePreviewAgain)

\* C6 witness: a preview with a plan of two pairs has returned while the
\* history holds a record.
C6_Witness ==
  /\ PreviewReturned
  /\ Len(ret.preview) = 2
  /\ rename_history # <<>>

\* the arguments of the call that returns in this step fail validation, or no
\* file of the folder matches the filter
NothingToDo ==
  LET a == Args(ret'.folder, ret'.pattern, ret'.file_filter)
  IN \/ a \in BadFolderArgs
     \/ a \in BadPatternArgs
     \/ /\ a \in ValidArgs
        /\ Matched(fs[a.folder.v], a.file_filter) = {}

\* C9: when the folder or the pattern fails validation or no file matches,
\* the call changes neither the directories nor the history; rename_files
\* returns (0, 0, [message], {}), get_rename_preview returns an empty plan and
\* validate_rename_safe returns not safe, each with a non-empty message.
C9_ErrorsBeforeMutation ==
  [][(/\ pc = "idle"
      /\ pc' = "returned"
      /\ ret'.op \in {"rename_files", "get_rename_preview", "validate_rename_safe"}
      /\ NothingToDo)
       => /\ fs' = fs
          /\ rename_history' = rename_history
          /\ last_rename_mapping' = last_rename_mapping
          /\ ret'.exc = ""
          /\ ret'.op = "rename_files"
               => /\ ret'.success_count = 0
                  /\ ret'.error_count = 0
                  /\ Len(ret'.errors) = 1
                  /\ ret'.errors[1].msg # ""
                  /\ ret'.mapping = <<>>
                  /\ ~ret'.recorded
          /\ ret'.op = "get_rename_preview"
               => ret'.preview = <<>> /\ ret'.msg # ""
          /\ ret'.op = "validate_rename_safe"
               => ~ret'.ok /\ ret'.msg # ""]_vars

\* C9 witness: rename_files has returned "No files found" for a folder that
\* has entries, none of them matching the filter, after an earlier run.
C9_Witness ==
  /\ pc = "returned"
  /\ ret.op = "rename_files"
  /\ ret.errors = <<Error("No files found", <<>>)>>
  /\ ~ret.scan_error
  /\ Truthy(ret.file_filter)
  /\ fs[ret.folder.v] # <<>>
  /\ rename_history # <<>>

\* the entry new -> old the undo loop is at
UndoNew == loc.rename_mapping[loc.counter][1]

UndoOld == loc.rename_mapping[loc.counter][2]

\* counts, errors and outcomes after a step of the undo loop: the locals, or
\* the returned value when the step was the last one
AfterUndoItem == IF pc' = "undo_loop" THEN loc' ELSE ret'

\* the step renames the file called new back to old, touches no other entry
\* and counts one more restored item
RestoredStep ==
  LET d == fs[loc.folder]
      e == fs'[loc.folder]
  IN /\ UndoOld \in DOMAIN e
     /\ e[UndoOld] = d[UndoNew]
     /\ UndoNew # UndoOld => UndoNew \notin DOMAIN e
     /\ \A n \in (DOMAIN d \cup DOMAIN e) \ {UndoNew, UndoOld} :
          n \in DOMAIN d /\ n \in DOMAIN e /\ d[n] = e[n]
     /\ AfterUndoItem.success_count = loc.success_count + 1
     /\ AfterUndoItem.error_count = loc.error_count
     /\ AfterUndoItem.errors = loc.errors
     /\ AfterUndoItem.outcomes[loc.counter].outcome = "Restored"

\* the step renames nothing and records the failure msg for the entry
FailureStep(msg, outcome) ==
  /\ fs' = fs
  /\ AfterUndoItem.success_count = loc.success_count
  /\ AfterUndoItem.error_count = loc.error_count + 1
  /\ AfterUndoItem.errors = Append(loc.errors, Error(msg, UndoNew))
  /\ AfterUndoItem.outcomes[loc.counter].outcome = outcome

\* the loop starts at the first entry of the last record, moves on by one
\* entry in every step and returns only after the last entry
VisitsEveryEntry ==
  /\ (pc = "idle" /\ pc' = "undo_loop")
       => /\ loc'.counter = 1
          /\ loc'.rename_mapping =
               rename_history[Len(rename_history)].rename_mapping
  /\ (pc = "undo_loop" /\ pc' = "undo_loop")
       => /\ loc'.counter = loc.counter + 1
          /\ loc'.rename_mapping = loc.rename_mapping
  /\ (pc = "undo_loop" /\ pc' = "returned")
       => /\ loc.counter = Len(loc.rename_mapping)
          /\ Len(ret'.outcomes) = Len(loc.rename_mapping)

\* os.rename(new, old) raises in this step: an OS failure is injected, or the
\* old name is taken and the platform does not replace it
RenameBackRaises ==
  \/ faults' # faults
  \/ /\ UndoOld \in DOMAIN fs[loc.folder]
     /\ UndoOld # UndoNew
     /\ platform = "windows" \/ fs[loc.folder][UndoOld].kind = "dir"

\* C11 as stated: in every step of the undo loop the entry's file, if it
\* exists, is renamed back and counted as restored, and otherwise a "File not
\* found" failure is recorded; every entry is visited.
C11_ExistingIsRestored ==
  [][/\ VisitsEveryEntry
     /\ pc = "undo_loop"
          => IF UndoNew \in DOMAIN fs[loc.folder]
             THEN RestoredStep
             ELSE FailureStep("File not found", "NotFound")]_vars

\* C11 amended: in every step of the undo loop, an entry whose file does not
\* exist gets a "File not found" failure; an entry whose file exists is
\* renamed back and counted as restored unless os.rename raises, and then it
\* gets a "Failed to undo rename" failure and nothing is renamed; every entry
\* is visited, whatever failed before it.
C11_UndoEachEntry ==
  [][/\ VisitsEveryEntry
     /\ pc = "undo_loop"
          => IF UndoNew \notin DOMAIN fs[loc.folder]
             THEN FailureStep("File not found", "NotFound")
             ELSE IF RenameBackRaises
             THEN FailureStep("Failed to undo rename", "Failed")
             ELSE RestoredStep]_vars

\* C11 witness: an undo has returned that restored an entry after an earlier
\* entry's file was not found.
C11_Witness ==
  /\ pc = "returned"
  /\ ret.op = "undo_last_rename"
  /\ \E i, j \in 1..Len(ret.outcomes) :
       /\ i < j
       /\ ret.outcomes[i].outcome = "NotFound"
       /\ ret.outcomes[j].outcome = "Restored"

\* undo_last_rename has returned after its loop, which runs only on a record
\* with a non-empty reverse mapping
UndoLoopReturned ==
  /\ pc = "returned"
  /\ ret.op = "undo_last_rename"
  /\ ret.outcomes # <<>>

\* the entries the returned undo renamed back
RestoredItems ==
  {i \in 1..Len(ret.outcomes) : ret.outcomes[i].outcome = "Restored"}

\* C12: an undo of a record with a non-empty reverse mapping returns success
\* if and only if at least one item was restored, whatever else failed, and
\* failure if and only if no item was restored.
C12_UndoResult ==
  UndoLoopReturned
    => /\ ret.ok <=> RestoredItems # {}
       /\ ~ret.ok <=> RestoredItems = {}
       /\ ret.success_count = Cardinality(RestoredItems)

\* C12 witness: an undo returned success although one of its items failed.
C12_Witness ==
  /\ UndoLoopReturned
  /\ ret.ok
  /\ RestoredItems # {}
  /\ RestoredItems # 1..Len(ret.outcomes)

\* the step in which undo_last_rename returns
UndoReturns ==
  /\ pc # "returned"
  /\ pc' = "returned"
  /\ ret'.op = "undo_last_rename"

\* C13: undo acts on the last record of the history and on no other: the
\* loop runs over the reverse mapping of the last record, and when an undo
\* returns with two records in the history, the first record, unchanged, is
\* all that is left of the history.
C13_StackDiscipline ==
  [][/\ pc' = "undo_loop"
          => /\ rename_history' = rename_history
             /\ loc'.rename_mapping =
                  rename_history[Len(rename_history)].rename_mapping
     /\ (UndoReturns /\ Len(rename_history) = 2)
          => rename_history' = <<rename_history[1]>>]_vars

\* C14: undo_last_rename called with an empty history returns failure with a
\* message whose lower-cased text contains "history", and changes neither
\* the directory nor the history.
C14_UndoEmptyHistory ==
  [][(pc = "idle" /\ rename_history = <<>> /\ UndoReturns)
       => /\ ~ret'.ok
          /\ Contains(Lower(MessageText(ret'.msg)),
                      <<"h", "i", "s", "t", "o", "r", "y">>)
          /\ fs' = fs
          /\ rename_history' = <<>>
          /\ last_rename_mapping' = last_rename_mapping]_vars

\* C14 witness: an undo has returned its refusal while the history is empty.
C14_Witness ==
  /\ pc = "returned"
  /\ ret.op = "undo_last_rename"
  /\ rename_history = <<>>
  /\ ret.msg = "No rename operations in history"
  /\ ret.outcomes = <<>>

\* a validate_rename_safe call has returned
SafeReturned == pc = "returned" /\ ret.op = "validate_rename_safe"

\* two new names of the plan coincide
Coincide(new_filenames) ==
  \E i, j \in 1..Len(new_filenames) :
    i # j /\ new_filenames[i] = new_filenames[j]

\* a new name of the plan is an entry of d that the plan does not rename
TakenByOther(new_filenames, d, renamed) ==
  \E i \in 1..Len(new_filenames) : new_filenames[i] \in DOMAIN d \ renamed

\* C15: for a valid folder and pattern and at least one matched file (no
\* listing failing), validate_rename_safe reports not-safe if and only if
\* two planned new names coincide or a planned new name is an existing
\* entry that is not among the files the plan renames.
C15_RejectsOnlyRealConflicts ==
  (/\ SafeReturned
   /\ validate_folder_path(ret.folder).ok
   /\ validate_pattern(ret.pattern).ok
   /\ ~ret.scan_error
   /\ ~ret.list_error
   /\ Matched(fs[ret.folder.v], ret.file_filter) # {})
    => /\ ret.exc = ""
       /\ ~ret.ok <=>
            \/ Coincide(NewNames(FullPlan(
                 Ascending(Matched(fs[ret.folder.v], ret.file_filter)),
                 ret.pattern.v)))
            \/ TakenByOther(NewNames(FullPlan(
                 Ascending(Matched(fs[ret.folder.v], ret.file_filter)),
                 ret.pattern.v)),
                 fs[ret.folder.v],
                 Matched(fs[ret.folder.v], ret.file_filter))

\* the filters a scan is asked for: none, the empty one, a suffix in lower
\* and in upper case
ScanFilters == {PyNone, PyStr(<<>>), PyStr(FilterT), PyStr(<<".", "T">>)}

\* C16: get_files_in_folder returns exactly the entries of the folder that
\* are not directories and, under a filter, whose lower-cased name ends with
\* the lower-cased filter, in ascending order, whatever order the directory
\* listing has; a returned preview was planned for exactly these files.
C16_ScanResult ==
  /\ \A folder_path \in DOMAIN fs :
       \A listing \in Listings(fs[folder_path]), file_filter \in ScanFilters :
         get_files_in_folder(fs[folder_path], listing, file_filter, FALSE)
           = Ascending(Matched(fs[folder_path], file_filter))
  /\ (PreviewReturned /\ ret.files # <<>>)
       => ret.files = Ascending(Matched(fs[ret.folder.v], ret.file_filter))

\* C16 witness: a preview under a filter has returned the matching files of
\* a directory that also holds an entry the scan leaves out.
C16_Witness ==
  /\ PreviewReturned
  /\ Truthy(ret.file_filter)
  /\ ret.files # <<>>
  /\ \E n \in DOMAIN fs[ret.folder.v] :
       \A i \in 1..Len(ret.files) : ret.files[i] # n

\* what the returned get_rename_preview call returns when its scan succeeds
\* and finds no file
PreviewOfNoFiles ==
  PreviewAfter(Call("get_rename_preview", ret.folder, ret.pattern,
                    ret.file_filter, FALSE),
               Validation(ret.folder, ret.pattern), ret.pattern, <<>>)

\* C17: a get_rename_preview call whose directory scan failed returns no
\* plan and an error, and what it returns differs from what it returns for
\* a successful scan that found no file.
C17_ScanFailureSurfaced ==
  (/\ PreviewReturned
   /\ validate_folder_path(ret.folder).ok
   /\ validate_pattern(ret.pattern).ok
   /\ ret.scan_error)
    => /\ ret.preview = <<>>
       /\ ret.msg # ""
       /\ [ret EXCEPT !.scan_error = FALSE] # PreviewOfNoFiles

\* the suffix of name that starts at its last dot, empty without a dot
LastDotSuffix(name) ==
  IF RFind(name, ".", Len(name)) = 0 THEN <<>>
  ELSE SubSeq(name, RFind(name, ".", Len(name)), Len(name))

\* C18: the extension of every file a preview was planned for is its suffix
\* from the last dot on, empty when it has no dot, also with several dots and
\* with a leading dot; every pair of the preview has the pattern rendered
\* with the file's counter, followed by that extension, as its new name.
C18_ExtensionRule ==
  PreviewReturned
    => /\ \A i \in 1..Len(ret.files) :
            get_file_extension(ret.files[i]) = LastDotSuffix(ret.files[i])
       /\ \A k \in 1..Len(ret.preview) :
            \E i \in 1..Len(ret.files) :
              /\ ret.files[i] = ret.preview[k][1]
              /\ ret.preview[k][2] =
                   Render(ret.pattern.v, i).s \o LastDotSuffix(ret.files[i])

\* the pattern has a replacement field named num: an opening brace that is
\* not doubled, followed by num and the end of the field name
RECURSIVE HasCounterField(_, _)
HasCounterField(p, i) ==
  IF i > Len(p) THEN FALSE
  ELSE IF p[i] = "{" /\ i < Len(p) /\ p[i + 1] = "{"
       THEN HasCounterField(p, i + 2)
  ELSE IF /\ p[i] = "{"
          /\ i + 4 <= Len(p)
          /\ SubSeq(p, i + 1, i + 3) = <<"n", "u", "m">>
          /\ p[i + 4] \in {"}", "!", ":", ".", "["}
       THEN TRUE
  ELSE HasCounterField(p, i + 1)

\* rendering the pattern raises for one of the counters 1, 10 and 100
RenderingFails(p) == \E n \in {1, 10, 100} : Render(p, n).exc # ""

\* a call that validates its pattern has returned
ValidatingCallReturned ==
  /\ pc = "returned"
  /\ ret.op \in {"rename_files", "get_rename_preview", "validate_rename_safe"}
  /\ validate_folder_path(ret.folder).ok

\* C19: validate_pattern returns (False, message) for the empty pattern, a
\* pattern that is not a string, a pattern without the placeholder text and
\* a pattern whose rendering fails for 1, 10 or 100; it returns (True, '')
\* only for a pattern with a replacement field named num that renders for
\* all three counters.
C19_PatternVerdict ==
  ValidatingCallReturned
    => /\ (\/ ~Truthy(ret.pattern)
           \/ ret.pattern.t # "str"
           \/ ~Contains(ret.pattern.v, <<"{", "n", "u", "m">>)
           \/ RenderingFails(ret.pattern.v))
            => /\ validate_pattern(ret.pattern).exc = ""
               /\ ~validate_pattern(ret.pattern).ok
               /\ validate_pattern(ret.pattern).msg # ""
       /\ (validate_pattern(ret.pattern).exc = ""
             /\ validate_pattern(ret.pattern).ok)
            => /\ ret.pattern.t = "str"
               /\ HasCounterField(ret.pattern.v, 1)
               /\ ~RenderingFails(ret.pattern.v)

\* C20: every call returns its result; none ends with an exception that
\* nothing caught, whatever the pattern and whatever the OS does.
C20_FailuresAreValues == pc = "returned" => ret.exc = ""

\* C21: a plan that get_rename_preview returns without error for a pattern
\* validate_pattern accepts has pairwise distinct new names.
C21_PlanNamesDistinct ==
  (/\ PreviewReturned
   /\ ret.exc = ""
   /\ validate_pattern(ret.pattern).exc = ""
   /\ validate_pattern(ret.pattern).ok)
    => \A i, j \in 1..Len(ret.preview) :
         i # j => ret.preview[i][2] # ret.preview[j][2]

\* the step of the rename loop renames its file to the planned new name
RenamedStep ==
  /\ pc = "rename_loop"
  /\ AfterItem.outcomes[loc.counter].outcome = "Renamed"

\* C22: in every step of a rename_files run with a filter, every entry that
\* is a subdirectory or does not match the filter stays under its name,
\* unchanged, and the only name that appears in the directory is the new
\* name of a successful rename.
C22_FilterFrame ==
  [][(pc = "rename_loop" /\ Truthy(loc.file_filter))
       => /\ \A n \in DOMAIN fs[loc.folder] \
                        Matched(fs[loc.folder], loc.file_filter) :
               /\ n \in DOMAIN fs'[loc.folder]
               /\ fs'[loc.folder][n] = fs[loc.folder][n]
          /\ \A n \in DOMAIN fs'[loc.folder] \ DOMAIN fs[loc.folder] :
               RenamedStep /\ n = PlannedNew
          /\ \A p \in DOMAIN fs \ {loc.folder} : fs'[p] = fs[p]]_vars

\* C22 witness: a run with a filter has returned after renaming a file, in a
\* directory that holds an entry the filter does not match.
C22_Witness ==
  /\ pc = "returned"
  /\ ret.op = "rename_files"
  /\ Truthy(ret.file_filter)
  /\ ret.success_count > 0
  /\ DOMAIN fs[ret.folder.v] \ Matched(fs[ret.folder.v], ret.file_filter) # {}

\* no new name can be produced from g: rendering failed with an exception
\* that generate_new_filename catches, or the name is empty
NoName(g) == g.exc = "" /\ (g.none \/ g.s = <<>>)

\* generating the new name of the i-th of files fails
GenerationFails(pattern, files, i) ==
  NoName(generate_new_filename(pattern, i, get_file_extension(files[i])))

\* in the rename loop, an item whose name cannot be generated is counted as a
\* failure with an error naming the file, and the loop goes on
RenameReportsNoName ==
  (pc = "rename_loop" /\ GenerationFails(loc.pattern.v, loc.files, loc.counter))
    => /\ fs' = fs
       /\ AfterItem.success_count = loc.success_count
       /\ AfterItem.error_count = loc.error_count + 1
       /\ AfterItem.errors =
            Append(loc.errors, Error("Could not generate new name for",
                                     loc.files[loc.counter]))
       /\ loc.counter < Len(loc.files)
            => pc' = "rename_loop" /\ loc'.counter = loc.counter + 1

\* a returned preview reports every file whose name cannot be generated
PreviewReportsNoName ==
  (PreviewReturned /\ ret.exc = "")
    => \A i \in 1..Len(ret.files) :
         GenerationFails(ret.pattern.v, ret.files, i)
           => \/ ret.msg # ""
              \/ \E k \in 1..Len(ret.errors) : ret.errors[k].name = ret.files[i]

\* C23: a name-generation failure for one item is reported per item and
\* does not end the run: rename_files counts the item as a failure with an
\* error naming the file and continues, and get_rename_preview reports the
\* item instead of dropping its pair from the plan without a word.
C23_GenerationFailureReported ==
  [][RenameReportsNoName]_vars /\ []PreviewReportsNoName

\* C24: with undo_last_rename called again and again, a history that holds
\* records is eventually empty: no record stays the last element forever.
C24_UndoDrains == (rename_history # <<>>) ~> (rename_history = <<>>)

\* a rename_files run has returned after its loop
RunLoopReturned == pc = "returned" /\ ret.op = "rename_files" /\ ret.recorded

\* what validate_rename_safe returns for the arguments of the returned run
\* on the directory d, with no listing failing
SafeOn(d) ==
  SafeAfter(Call("validate_rename_safe", ret.folder, ret.pattern,
                 ret.file_filter, FALSE),
            Validation(ret.folder, ret.pattern),
            PreviewAfter(Call("get_rename_preview", ret.folder, ret.pattern,
                              ret.file_filter, FALSE),
                         Validation(ret.folder, ret.pattern), ret.pattern,
                         get_files_in_folder(d, Ascending(DOMAIN d),
                                             ret.file_filter, FALSE)),
            DOMAIN d, FALSE)

\* os.rename raised for no item of the returned run
NoRenameFailure ==
  \A i \in 1..Len(ret.outcomes) :
    ~(ret.outcomes[i].outcome = "Failed" /\ ret.outcomes[i].new # <<>>)

\* C25: when validate_rename_safe reports safe on the directory a
\* rename_files run with the same arguments starts from, and os.rename does
\* not fail, the run renames every matched file and counts no failure.
C25_SafeIsSufficient ==
  (/\ RunLoopReturned
   /\ snapshot.valid
   /\ SafeOn(snapshot.dir).ok
   /\ NoRenameFailure)
    => /\ ret.success_count =
            Cardinality(Matched(snapshot.dir, ret.file_filter))
       /\ ret.error_count = 0

\* the checks of a folder path in the stated order, each with its message
FolderChecks(p) ==
  <<[fails |-> ~Truthy(p), msg |-> "Folder path cannot be empty"],
    [fails |-> p.t # "str", msg |-> "Folder path must be a string"],
    [fails |-> ~PathExists(p.v), msg |-> "Folder does not exist"],
    [fails |-> ~IsDir(p.v), msg |-> "Path is not a folder"],
    [fails |-> ~Readable(p.v), msg |-> "Folder is not readable"],
    [fails |-> ~Writable(p.v), msg |-> "Folder is not writable"]>>

\* the positions of the checks that p fails
Failing(p) == {i \in 1..Len(FolderChecks(p)) : FolderChecks(p)[i].fails}

\* a validate_folder_path call has returned
FolderValidated == pc = "returned" /\ ret.op = "validate_folder_path"

\* C26: validate_folder_path returns (True, '') if and only if the path is
\* a non-empty string that exists, is a directory and is readable and
\* writable; otherwise it returns False with the message of the first check
\* that fails, in the order empty, non-string, missing, not a directory, not
\* readable, not writable.
C26_FolderVerdict ==
  FolderValidated
    => /\ ret.ok <=> /\ ret.folder.t = "str"
                     /\ ret.folder.v # <<>>
                     /\ PathExists(ret.folder.v)
                     /\ IsDir(ret.folder.v)
                     /\ Readable(ret.folder.v)
                     /\ Writable(ret.folder.v)
       /\ ret.ok => ret.msg = "" /\ Failing(ret.folder) = {}
       /\ ~ret.ok
            => \E i \in Failing(ret.folder) :
                 /\ \A j \in Failing(ret.folder) : i <= j
                 /\ ret.msg = FolderChecks(ret.folder)[i].msg

\* C26 witness: a path that passes every check but the last has been refused
\* as not writable.
C26_Witness ==
  /\ FolderValidated
  /\ ~ret.ok
  /\ Failing(ret.folder) = {6}
  /\ ret.msg = "Folder is not writable"

\* C27: when a rename_files run returns after its loop, the record it
\* appended has the success count, the error count and the mapping the call
\* returns, and the folder and the pattern the call was made with; the call
\* returns as many error messages as its error count.
C27_BookkeepingConsistent ==
  RunLoopReturned
    => /\ rename_history # <<>>
       /\ rename_history[Len(rename_history)].success_count = ret.success_count
       /\ rename_history[Len(rename_history)].error_count = ret.error_count
       /\ rename_history[Len(rename_history)].rename_mapping = ret.mapping
       /\ rename_history[Len(rename_history)].folder = ret.folder.v
       /\ rename_history[Len(rename_history)].pattern = ret.pattern
       /\ last_rename_mapping = ret.mapping
       /\ Len(ret.errors) = ret.error_count
       /\ ret.success_count + ret.error_count = Len(ret.files)

\* C27 witness: a second run has returned that renamed one file and failed
\* for another.
C27_Witness ==
  /\ RunLoopReturned
  /\ Len(rename_history) = 2
  /\ ret.success_count = 1
  /\ ret.error_count = 1
  /\ Len(ret.mapping) = 1

\* the keys and the values of a reverse mapping
MappingNames(m) == {m[i][1] : i \in 1..Len(m)} \cup {m[i][2] : i \in 1..Len(m)}

\* C28: undo works in the folder of the last record: it leaves every other
\* folder as it is and, in that folder, every entry whose name is neither a
\* key nor a value of the record's reverse mapping.
C28_UndoFrame ==
  [][/\ (pc = "idle" /\ pc' = "undo_loop")
          => /\ loc'.folder = rename_history[Len(rename_history)].folder
             /\ fs' = fs
     /\ UndoReturns /\ pc = "idle" => fs' = fs
     /\ pc = "undo_loop"
          => /\ DOMAIN fs' = DOMAIN fs
             /\ \A p \in DOMAIN fs \ {loc.folder} : fs'[p] = fs[p]
             /\ \A n \in (DOMAIN fs[loc.folder] \cup DOMAIN fs'[loc.folder])
                           \ MappingNames(loc.rename_mapping) :
                  /\ n \in DOMAIN fs[loc.folder]
                  /\ n \in DOMAIN fs'[loc.folder]
                  /\ fs'[loc.folder][n] = fs[loc.folder][n]
             /\ pc' = "undo_loop" => loc'.folder = loc.folder]_vars

\* C28 witness: with runs on two folders in the history, an undo has
\* restored files of the last run and returned; the record left is of the
\* other folder, whose run renamed something.
C28_Witness ==
  /\ pc = "returned"
  /\ ret.op = "undo_last_rename"
  /\ ret.success_count > 0
  /\ snapshot.valid
  /\ Len(rename_history) = 1
  /\ rename_history[1].folder # snapshot.folder
  /\ rename_history[1].rename_mapping # <<>>

\* the step in which clear_rename_history returns
ClearReturns ==
  /\ pc = "idle"
  /\ pc' = "returned"
  /\ ret'.op = "clear_rename_history"

\* C29: clear_rename_history leaves an empty history and does not touch the
\* directories, so files that were renamed keep their new names; an undo
\* called on the history it leaves returns the empty-history failure and
\* renames nothing.
C29_ClearHistory ==
  [][/\ ClearReturns
          => /\ rename_history' = <<>>
             /\ fs' = fs
             /\ EarlyReturn(rename_history') = "No rename operations in history"
     /\ (pc = "idle" /\ UndoReturns /\ rename_history = <<>>)
          => /\ ~ret'.ok
             /\ ret'.msg = "No rename operations in history"
             /\ ret'.success_count = 0
             /\ fs' = fs
             /\ rename_history' = <<>>]_vars

\* C29 witness: clear_rename_history has returned after two recorded runs,
\* and the files of the last run are in the directory under their new names.
C29_Witness ==
  /\ pc = "returned"
  /\ ret.op = "clear_rename_history"
  /\ rename_history = <<>>
  /\ runs = 2
  /\ last_rename_mapping # <<>>
  /\ \A i \in 1..Len(last_rename_mapping) :
       last_rename_mapping[i][1] \in DOMAIN fs[Folder]

\* the run that has returned is a second run: the record before its own is
\* of a run with the same folder and pattern that failed for no file, the
\* directory it started from held exactly the files that run had renamed,
\* and it matched all of them
SecondRunReturned ==
  /\ RunLoopReturned
  /\ snapshot.valid
  /\ Len(rename_history) >= 2
  /\ rename_history[Len(rename_history) - 1].folder = ret.folder.v
  /\ rename_history[Len(rename_history) - 1].pattern = ret.pattern
  /\ rename_history[Len(rename_history) - 1].error_count = 0
  /\ DOMAIN snapshot.dir =
       Keys(rename_history[Len(rename_history) - 1].rename_mapping)
  /\ Len(ret.files) = Cardinality(DOMAIN snapshot.dir)

\* C30: a second run made right after a run that renamed every entry of the
\* directory, with the same arguments, renames nothing: every item fails
\* with "already exists" and the directory stays as it was.
C30_RerunHarmless ==
  SecondRunReturned
    => /\ ret.success_count = 0
       /\ ret.error_count = Len(ret.files)
       /\ \A i \in 1..Len(ret.errors) :
            ret.errors[i].msg = "Target file already exists"
       /\ ret.mapping = <<>>
       /\ fs[ret.folder.v] = snapshot.dir

====
